---- MODULE Spec2Model ----
(***************************************************************************)
(* The authentication token lifecycle of the MagicStream Movies server:    *)
(* RegisterUser, LoginUser, RefreshToken, Logout, GetProfile and           *)
(* AdminReviewUpdate (controllers), GenerateAllTokens up to                *)
(* RevokeRefreshToken (utils), AuthMiddleware (middleware) and the route   *)
(* table of main.go.                                                       *)
(*                                                                         *)
(* Every HTTP request is served by its own goroutine: a request is a       *)
(* process of Procs whose steps are the handler's round trips to the       *)
(* users collection; everything a handler does between two round trips is  *)
(* local and belongs to the step that follows it.                          *)
(***************************************************************************)
EXTENDS Integers, Sequences, FiniteSets, TLC

\* ------------------------------------------------------------------ bounds
\* user documents the collection may hold (ids 1..MaxUsers, 1 is seeded)
MaxUsers == 2
\* requests served in one behaviour
MaxRequests == 3
\* clock advances in one behaviour
MaxTicks == 1
\* API calls the browser application makes in one behaviour (call 1 is the
\* fetchProfile of AuthInitializer)
MaxCalls == 3

\* goroutines serving requests at the same time
Procs == 1..2
Emails == {"admin@x", "bob@x"}
Passwords == {"pw1", "pw2"}
UserIds == 1..MaxUsers

\* ------------------------------------------------------- program constants
\* token lifetimes in seconds (jwt.NumericDate has one-second precision)
AccessTTL == 86400
RefreshTTL == 604800
\* bcrypt uses at most the first 72 bytes of its input
BcryptMaxBytes == 72
\* base64url({"alg":"HS256","typ":"JWT"}) and the dot that follows it
JwtHeaderBytes == 37
\* {"type":"  : the bytes of the claims JSON before the value of Type
TypeValueOffset == 9
\* ","user_id":"  : the bytes between the value of Type and that of UserId
UserIdKeyBytes == 13

RoleUser == "USER"
RoleAdmin == "ADMIN"

VARIABLES
  users,    \* the users collection: user_id -> document, or NoDoc
  now,      \* time.Now() in whole seconds
  ticks,    \* clock advances so far
  nsalt,    \* bcrypt salts drawn so far (every hash gets a fresh salt)
  nreq,     \* requests accepted so far
  issued,   \* token strings handed to clients in Set-Cookie headers
  pc,       \* per request: the handler's position
  req,      \* per request: route, cookies and body
  loc,      \* per request: the handler's local variables
  resp,     \* per request: status and Set-Cookie headers written
  env,      \* the process environment (.env): the two signing secrets
  movies,   \* the movies collection: imdb_id -> admin_review and ranking
  jar,          \* browser: the access_token and refresh_token cookies
  isRefreshing, \* client.js: a refresh started by the interceptor is pending
  failedQueue,  \* client.js: the calls waiting for that refresh
  call,         \* browser: per API call, its config and its promise
  inflight,     \* browser: POST /refresh requests sent and not yet answered
  app           \* browser: AuthInitializer, userAtom, toast and location

\* the variables of the server and those of the browser
svars ==
  <<users, now, ticks, nsalt, nreq, issued, pc, req, loc, resp, env, movies>>
cvars == <<jar, isRefreshing, failedQueue, call, inflight, app>>
vars == <<svars, cvars>>

\* the environments the server may be started in: the two secrets differ, or
\* one value is configured for both
Environments ==
  {[SECRET_KEY |-> "secret-a", SECRET_REFRESH_KEY |-> "secret-b"],
   [SECRET_KEY |-> "secret-a", SECRET_REFRESH_KEY |-> "secret-a"]}

\* os.Getenv: a variable that is not set reads as the empty string
Getenv(name) ==
  CASE name = "SECRET_KEY" -> env.SECRET_KEY
    [] name = "SECRET_REFRESH_KEY" -> env.SECRET_REFRESH_KEY
    [] OTHER -> ""

\* ------------------------------------------------------------ token strings
\* A cookie value.  kind "jwt" is a well-formed HS256 token whose fields are
\* the SignedDetails it carries and the key it was signed with; "none" is an
\* absent cookie, "empty" the empty string, "garbage" an undecodable string.
Raw(kind) ==
  [kind |-> kind, type |-> "", user_id |-> 0, email |-> "", role |-> "",
   iat |-> 0, exp |-> 0, key |-> ""]

NoCookie == Raw("none")
EmptyCookie == Raw("empty")
Garbage == Raw("garbage")
\* Set-Cookie with max-age -1
Cleared == Raw("cleared")

\* jwt.NewWithClaims(HS256, claims).SignedString(secret)
SignedString(type, user, iat, ttl, secret) ==
  [kind |-> "jwt", type |-> type, user_id |-> user.user_id,
   email |-> user.email, role |-> user.role,
   iat |-> iat, exp |-> iat + ttl, key |-> secret]

\* GenerateAllTokens at clock value t
GenerateAllTokens(user, t) ==
  [access  |-> SignedString("access", user, t, AccessTTL, Getenv("SECRET_KEY")),
   refresh |-> SignedString("refresh", user, t, RefreshTTL,
                            Getenv("SECRET_REFRESH_KEY"))]

Fail(e) == [ok |-> FALSE, err |-> e, claims |-> NoCookie]
Pass(tok) == [ok |-> TRUE, err |-> "", claims |-> tok]

\* validateToken whose parser validates the registered claims before it
\* verifies the signature
validateTokenClaimsFirst(tok, secret) ==
  IF tok.kind # "jwt" THEN Fail("Malformed")
  ELSE IF ~(now < tok.exp) THEN Fail("Expired")
  ELSE IF tok.key # secret THEN Fail("InvalidSignature")
  ELSE Pass(tok)

\* validateToken: jwt.ParseWithClaims decodes, verifies the HMAC with the
\* given secret, then validates exp against the clock (valid while now < exp)
validateToken(tok, secret) ==
  IF tok.kind # "jwt" THEN Fail("Malformed")
  ELSE IF tok.key # secret THEN Fail("InvalidSignature")
  ELSE IF ~(now < tok.exp) THEN Fail("Expired")
  ELSE Pass(tok)

\* ValidateAccessToken that also requires the user to hold a stored
\* refresh_token_hash (a session lookup on every request)
ValidateAccessTokenStateful(tok) ==
  LET r == validateToken(tok, Getenv("SECRET_KEY")) IN
  IF ~r.ok THEN r
  ELSE IF r.claims.type # "access" THEN Fail("WrongTokenType")
  ELSE IF r.claims.exp < now THEN Fail("Expired")
  ELSE IF users[r.claims.user_id].refresh_token_hash.salt = 0
  THEN Fail("Revoked")
  ELSE r

\* ValidateAccessToken reading a variable GenerateAllTokens does not sign with
ValidateAccessTokenOtherEnv(tok) ==
  LET r == validateToken(tok, Getenv("SECRET_ACCESS_KEY")) IN
  IF ~r.ok THEN r
  ELSE IF r.claims.type # "access" THEN Fail("WrongTokenType")
  ELSE IF r.claims.exp < now THEN Fail("Expired")
  ELSE r

ValidateAccessToken(tok) ==
  LET r == validateToken(tok, Getenv("SECRET_KEY")) IN
  IF ~r.ok THEN r
  ELSE IF r.claims.type # "access" THEN Fail("WrongTokenType")
  ELSE IF r.claims.exp < now THEN Fail("Expired")
  ELSE r

\* ValidateRefreshToken whose key function is never consulted (the signature
\* is decoded but not verified)
ValidateRefreshTokenUnverified(tok) ==
  LET r == validateToken(tok, tok.key) IN
  IF ~r.ok THEN r
  ELSE IF r.claims.type # "refresh" THEN Fail("WrongTokenType")
  ELSE IF r.claims.exp < now THEN Fail("Expired")
  ELSE r

\* ValidateRefreshToken without the check of claims.Type
ValidateRefreshTokenAnyType(tok) ==
  LET r == validateToken(tok, Getenv("SECRET_REFRESH_KEY")) IN
  IF ~r.ok THEN r
  ELSE IF r.claims.exp < now THEN Fail("Expired")
  ELSE r

ValidateRefreshToken(tok) ==
  LET r == validateToken(tok, Getenv("SECRET_REFRESH_KEY")) IN
  IF ~r.ok THEN r
  ELSE IF r.claims.type # "refresh" THEN Fail("WrongTokenType")
  ELSE IF r.claims.exp < now THEN Fail("Expired")
  ELSE r

\* ------------------------------------------------------------------ bcrypt
\* The claims JSON is marshalled in field order: type, user_id, first_name,
\* last_name, email, role, sub, exp, iat; the signature follows the payload.
Fields(tok) ==
  <<tok.type, tok.user_id, tok.email, tok.role, tok.exp, tok.iat, tok.key>>

StrLen(s) == IF s = "access" THEN 6 ELSE IF s = "refresh" THEN 7 ELSE 0

\* bytes of the claims JSON that reach the first BcryptMaxBytes bytes of the
\* token string (base64url: 6 bits per character, the last byte only partly)
PayloadBytesHashed == ((BcryptMaxBytes - JwtHeaderBytes) * 6 + 7) \div 8

\* offset of the value of UserId in the claims JSON
UserIdValueOffset(type) == TypeValueOffset + StrLen(type) + UserIdKeyBytes

\* the leading fields of the token that lie within bcrypt's 72 bytes
HashedFields(tok) ==
  IF UserIdValueOffset(tok.type) >= PayloadBytesHashed THEN 1 ELSE 2

\* what bcrypt makes of a token string: its first 72 bytes
BcryptKey(tok) == SubSeq(Fields(tok), 1, HashedFields(tok))

\* what bcrypt makes of a password (shorter than 72 bytes)
PasswordKey(password) == <<password>>

\* a stored bcrypt hash: the salt drawn for it and the digest of the key
NoHash == [salt |-> 0, key |-> <<>>]
GenerateFromPassword(key, salt) == [salt |-> salt, key |-> key]

\* bcrypt.CompareHashAndPassword recomputes the digest with the stored salt
CompareHashAndPassword(hash, key) == hash.key = key

\* ------------------------------------------------------- users collection
NoDoc ==
  [user_id |-> 0, email |-> "", role |-> "", password |-> NoHash,
   refresh_token_hash |-> NoHash, token |-> "absent",
   refresh_token |-> "absent"]

Docs == {i \in UserIds : users[i] # NoDoc}

\* userCollection.CountDocuments({email})
CountDocuments(email) == Cardinality({i \in Docs : users[i].email = email})

\* userCollection.FindOne({email}): the first match in insertion order
FindOneByEmail(email) ==
  LET m == {i \in Docs : users[i].email = email} IN
  IF m = {} THEN NoDoc
  ELSE users[CHOOSE i \in m : \A j \in m : i <= j]

\* userCollection.FindOne({user_id})
FindOneByUserId(userId) ==
  IF userId \in Docs THEN users[userId] ELSE NoDoc

\* bson.NewObjectID for the document InsertOne adds: ids are handed out in
\* insertion order
NewObjectID == CHOOSE i \in UserIds \ Docs : \A j \in UserIds \ Docs : i <= j

\* UpdateAllTokens that logs the error of UpdateOne and returns nil
UpdateAllTokensSwallowError(userId, refreshToken, hashErr, storeErr) ==
  IF hashErr THEN [ok |-> FALSE, users |-> users]
  ELSE IF storeErr THEN [ok |-> TRUE, users |-> users]
  ELSE [ok |-> TRUE,
        users |->
          IF userId \in Docs
          THEN [users EXCEPT
                  ![userId].refresh_token_hash =
                     GenerateFromPassword(BcryptKey(refreshToken), nsalt + 1),
                  ![userId].token = "absent",
                  ![userId].refresh_token = "absent"]
          ELSE users]

\* UpdateAllTokens: hash the refresh token, $set refresh_token_hash, $unset
\* the plain-text fields.  UpdateOne on a filter that matches no document
\* changes nothing and returns no error.  hashErr: GenerateFromPassword
\* returned an error; storeErr: UpdateOne returned an error.
UpdateAllTokens(userId, refreshToken, hashErr, storeErr) ==
  IF hashErr \/ storeErr THEN [ok |-> FALSE, users |-> users]
  ELSE [ok |-> TRUE,
        users |->
          IF userId \in Docs
          THEN [users EXCEPT
                  ![userId].refresh_token_hash =
                     GenerateFromPassword(BcryptKey(refreshToken), nsalt + 1),
                  ![userId].token = "absent",
                  ![userId].refresh_token = "absent"]
          ELSE users]

\* ValidateRefreshTokenFromDB that takes a document without a stored hash
\* for a user who has nothing to compare against and returns nil
ValidateRefreshTokenFromDBAbsentOk(userId, refreshToken, storeErr) ==
  LET user == FindOneByUserId(userId) IN
  IF storeErr \/ user = NoDoc THEN FALSE
  ELSE IF user.refresh_token_hash = NoHash THEN TRUE
  ELSE CompareHashAndPassword(user.refresh_token_hash, BcryptKey(refreshToken))

\* ValidateRefreshTokenFromDB: nil (TRUE) when the presented token matches
\* the stored hash
ValidateRefreshTokenFromDB(userId, refreshToken, storeErr) ==
  LET user == FindOneByUserId(userId) IN
  IF storeErr \/ user = NoDoc THEN FALSE
  ELSE IF user.refresh_token_hash = NoHash THEN FALSE
  ELSE CompareHashAndPassword(user.refresh_token_hash, BcryptKey(refreshToken))

\* RevokeRefreshToken whose update only $sets updated_at
RevokeRefreshTokenNoUnset(userId, storeErr) ==
  IF storeErr THEN [ok |-> FALSE, users |-> users]
  ELSE [ok |-> TRUE, users |-> users]

\* RevokeRefreshToken that reads the UpdateResult and reports an error when
\* no refresh_token_hash was there to remove
RevokeRefreshTokenMustModify(userId, storeErr) ==
  IF storeErr THEN [ok |-> FALSE, users |-> users]
  ELSE IF FindOneByUserId(userId).refresh_token_hash = NoHash
  THEN [ok |-> FALSE, users |-> users]
  ELSE [ok |-> TRUE,
        users |-> [users EXCEPT ![userId].refresh_token_hash = NoHash]]

\* RevokeRefreshToken: $unset refresh_token_hash
RevokeRefreshToken(userId, storeErr) ==
  IF storeErr THEN [ok |-> FALSE, users |-> users]
  ELSE [ok |-> TRUE,
        users |-> IF userId \in Docs
                  THEN [users EXCEPT ![userId].refresh_token_hash = NoHash]
                  ELSE users]

\* ---------------------------------------------------------------- requests
NoBody == [email |-> "", password |-> "", role |-> "", admin_review |-> "",
           ranking |-> 0, valid |-> FALSE]
NoReq == [route |-> "", param |-> "", access |-> NoCookie,
          refresh |-> NoCookie, body |-> NoBody]
NoLoc == [user |-> NoDoc, claims |-> NoCookie, sawHash |-> NoHash,
          ctx |-> [set |-> FALSE, userId |-> 0, role |-> ""]]
NoResp == [status |-> 0, body |-> "", access |-> NoCookie,
           refresh |-> NoCookie]
\* the keys AuthMiddleware sets in the gin context
NoCtx == [set |-> FALSE, userId |-> 0, role |-> ""]

\* a token string of the given type for the administrator, signed by someone
\* who does not hold the server's secrets
Forged(type) ==
  [kind |-> "jwt", type |-> type, user_id |-> 1, email |-> "admin@x",
   role |-> RoleAdmin, iat |-> 0, exp |-> AccessTTL,
   key |-> "attacker-secret"]

\* what a client may send in the access_token and refresh_token cookies
AccessCookies ==
  {NoCookie, EmptyCookie, Garbage, Forged("access")} \cup issued
RefreshCookies ==
  {NoCookie, EmptyCookie, Garbage, Forged("refresh")} \cup issued

\* request bodies: models.User for /register, models.UserLogin for /login;
\* one body that fails binding or validation
InvalidBody == NoBody
RegisterBodies ==
  [email : Emails, password : Passwords, role : {RoleUser, RoleAdmin},
   admin_review : {""}, ranking : {0}, valid : {TRUE}] \cup {InvalidBody}
LoginBodies ==
  [email : Emails, password : Passwords, role : {""},
   admin_review : {""}, ranking : {0}, valid : {TRUE}] \cup {InvalidBody}

\* the body of PATCH /updatereview/:imdb_id: admin_review and the optional
\* ranking (0: omitted)
ReviewBodies ==
  {[NoBody EXCEPT !.valid = TRUE],
   [NoBody EXCEPT !.valid = TRUE, !.admin_review = "great"],
   [NoBody EXCEPT !.valid = TRUE, !.admin_review = "great", !.ranking = 1],
   InvalidBody}

\* the movies collection holds one movie
ImdbIds == {"tt1"}
\* the :imdb_id a request may name
ImdbParams == {"tt1", "tt404"}
\* ranking_value of models.Ranking{999, "Unrated"}
Unrated == 999
NoMovie == [admin_review |-> "", ranking |-> Unrated]

\* c.JSON(status, body) without and with the two c.SetCookie calls
Reply(p, status, body) ==
  /\ resp' = [resp EXCEPT ![p] = [status |-> status, body |-> body,
                                  access |-> NoCookie, refresh |-> NoCookie]]
  /\ pc' = [pc EXCEPT ![p] = "done"]

ReplyWithCookies(p, status, body, access, refresh) ==
  /\ resp' = [resp EXCEPT ![p] = [status |-> status, body |-> body,
                                  access |-> access, refresh |-> refresh]]
  /\ pc' = [pc EXCEPT ![p] = "done"]

\* A written response leaves the server before anything else happens: Return
\* touches nothing but the finished goroutine, so it commutes with every
\* other step.
Flushed == \A q \in Procs : pc[q] # "done"

\* the handler of request p is at the given position; no handler writes the
\* environment
At(p, label) ==
  Flushed /\ pc[p] = label /\ env' = env /\ UNCHANGED cvars

\* a request is accepted by an idle goroutine (goroutines are anonymous: the
\* first idle one takes it)
Accept(p, r) ==
  /\ At(p, "idle")
  /\ \A q \in Procs : q < p => pc[q] # "idle"
  /\ nreq < MaxRequests
  /\ nreq' = nreq + 1
  /\ req' = [req EXCEPT ![p] = r]

\* the route table of main.go: TRUE for the routes of the protected group
Protected(route) ==
  route \in {"/profile", "/movie", "/addmovie", "/recommendedmovies",
             "/updatereview"}

\* AuthMiddleware without the check for the empty string: an empty cookie is
\* handed to ValidateAccessToken
AuthMiddlewareNoEmptyCheck(a) ==
  IF a = NoCookie
  THEN [status |-> 401, body |-> "No token provided", ctx |-> NoCtx]
  ELSE LET v == ValidateAccessToken(a) IN
       IF ~v.ok
       THEN [status |-> 401, body |-> "Invalid or expired token",
             ctx |-> NoCtx]
       ELSE [status |-> 0, body |-> "",
             ctx |-> [set |-> TRUE, userId |-> v.claims.user_id,
                      role |-> v.claims.role]]

\* AuthMiddleware that answers 401 for a well-formed token failing
\* ValidateAccessToken only when it cannot read the claims: the claims of a
\* decodable token are put in the context and the chain continues
AuthMiddlewareTrustClaims(a) ==
  IF a = NoCookie
  THEN [status |-> 401, body |-> "No token provided", ctx |-> NoCtx]
  ELSE IF a = EmptyCookie
  THEN [status |-> 401, body |-> "Token is empty", ctx |-> NoCtx]
  ELSE IF a.kind # "jwt"
  THEN [status |-> 401, body |-> "Invalid or expired token", ctx |-> NoCtx]
  ELSE [status |-> 0, body |-> "",
        ctx |-> [set |-> TRUE, userId |-> a.user_id, role |-> a.role]]

\* AuthMiddleware on a request carrying the access_token cookie a
AuthMiddleware(a) ==
  IF a = NoCookie
  THEN [status |-> 401, body |-> "No token provided", ctx |-> NoCtx]
  ELSE IF a = EmptyCookie
  THEN [status |-> 401, body |-> "Token is empty", ctx |-> NoCtx]
  ELSE LET v == ValidateAccessToken(a) IN
       IF ~v.ok
       THEN [status |-> 401, body |-> "Invalid or expired token",
             ctx |-> NoCtx]
       ELSE [status |-> 0, body |-> "",
             ctx |-> [set |-> TRUE, userId |-> v.claims.user_id,
                      role |-> v.claims.role]]

\* the gin context a handler of the given route sees
ContextOf(route, a) ==
  IF Protected(route) THEN AuthMiddleware(a).ctx ELSE NoCtx

\* ------------------------------------------------------------- the browser
Calls == 1..MaxCalls

\* an API call: the url of its config, config._retry, where its promise
\* stands, the status of the last response, and the refreshes its
\* interceptor runs have started
NoCall == [url |-> "", retry |-> FALSE, st |-> "new", status |-> 0,
           refreshes |-> 0]

\* the application before main.jsx has rendered App: no user, no toast, at
\* the page the visitor opened
NoApp == [initialized |-> FALSE, user |-> 0, toast |-> "", path |-> "/",
          events |-> 0]

NoJar == [access |-> NoCookie, refresh |-> NoCookie]

\* the browser of a visitor who has not opened the application
BrowserClosed ==
  /\ jar = NoJar
  /\ isRefreshing = FALSE
  /\ failedQueue = <<>>
  /\ call = [r \in Calls |-> NoCall]
  /\ inflight = {}
  /\ app = NoApp

\* ---------------------------------------------------------------- Init
\* the collection holds the administrator's document, written before this
\* version was deployed (RegisterUser creates no ADMIN); it still carries the
\* plain-text token fields the previous UpdateAllTokens stored
SeedAdmin ==
  [user_id |-> 1, email |-> "admin@x", role |-> RoleAdmin,
   password |-> GenerateFromPassword(PasswordKey("pw1"), 1),
   refresh_token_hash |-> NoHash,
   token |-> "plain",
   refresh_token |-> "plain"]

Init ==
  /\ users = [i \in UserIds |-> IF i = 1 THEN SeedAdmin ELSE NoDoc]
  /\ now = 0
  /\ ticks = 0
  /\ nsalt = 1
  /\ nreq = 0
  /\ issued = {}
  /\ pc = [p \in Procs |-> "idle"]
  /\ req = [p \in Procs |-> NoReq]
  /\ loc = [p \in Procs |-> NoLoc]
  /\ resp = [p \in Procs |-> NoResp]
  /\ env \in Environments
  /\ movies = [i \in ImdbIds |-> NoMovie]
  /\ BrowserClosed

\* ---------------------------------------------------------------- clock
TickSteps == {1, AccessTTL, RefreshTTL}

Tick ==
  /\ Flushed
  /\ ticks < MaxTicks
  /\ \E d \in TickSteps : now' = now + d
  /\ ticks' = ticks + 1
  /\ UNCHANGED <<users, nsalt, nreq, issued, pc, req, loc, resp, env,
               movies, cvars>>

\* ------------------------------------------------------------ RegisterUser
\* steps 1-3: bind, validate, CountDocuments
RegisterCount(p) ==
  \E b \in RegisterBodies, storeErr \in BOOLEAN :
    /\ Accept(p, [NoReq EXCEPT !.route = "/register", !.body = b])
    /\ IF ~b.valid THEN Reply(p, 400, "Invalid input data")
       ELSE IF storeErr THEN Reply(p, 500, "Failed to check existing user")
       ELSE IF CountDocuments(b.email) > 0
       THEN Reply(p, 409, "User with this email already exists")
       ELSE /\ Cardinality(Docs)
                 + Cardinality({q \in Procs : pc[q] = "reg_insert"}) < MaxUsers
            /\ pc' = [pc EXCEPT ![p] = "reg_insert"]
            /\ resp' = resp
    /\ UNCHANGED <<users, now, ticks, nsalt, issued, loc, movies>>

\* RegisterInsert that keeps the role the body carries
RegisterInsertBodyRole(p) ==
  \E hashErr \in BOOLEAN, storeErr \in BOOLEAN :
    /\ At(p, "reg_insert")
    /\ IF hashErr
       THEN /\ Reply(p, 500, "Unable to hash password")
            /\ UNCHANGED <<users, nsalt, loc>>
       ELSE IF storeErr
       THEN /\ Reply(p, 500, "Failed to create user")
            /\ UNCHANGED <<users, nsalt, loc>>
       ELSE LET user == [user_id |-> NewObjectID,
                         email |-> req[p].body.email,
                         role |-> req[p].body.role,
                         password |->
                           GenerateFromPassword(
                             PasswordKey(req[p].body.password), nsalt + 1),
                         refresh_token_hash |-> NoHash,
                         token |-> "absent",
                         refresh_token |-> "absent"]
            IN /\ users' = [users EXCEPT ![user.user_id] = user]
               /\ nsalt' = nsalt + 1
               /\ loc' = [loc EXCEPT ![p].user = user]
               /\ pc' = [pc EXCEPT ![p] = "reg_tokens"]
               /\ resp' = resp
    /\ UNCHANGED <<now, ticks, nreq, issued, req, movies>>

\* steps 4-6: HashPassword, defaults, InsertOne
RegisterInsert(p) ==
  \E hashErr \in BOOLEAN, storeErr \in BOOLEAN :
    /\ At(p, "reg_insert")
    /\ IF hashErr
       THEN /\ Reply(p, 500, "Unable to hash password")
            /\ UNCHANGED <<users, nsalt, loc>>
       ELSE IF storeErr
       THEN /\ Reply(p, 500, "Failed to create user")
            /\ UNCHANGED <<users, nsalt, loc>>
       ELSE LET user == [user_id |-> NewObjectID,
                         email |-> req[p].body.email,
                         role |-> RoleUser,
                         password |->
                           GenerateFromPassword(
                             PasswordKey(req[p].body.password), nsalt + 1),
                         refresh_token_hash |-> NoHash,
                         token |-> "absent",
                         refresh_token |-> "absent"]
            IN /\ users' = [users EXCEPT ![user.user_id] = user]
               /\ nsalt' = nsalt + 1
               /\ loc' = [loc EXCEPT ![p].user = user]
               /\ pc' = [pc EXCEPT ![p] = "reg_tokens"]
               /\ resp' = resp
    /\ UNCHANGED <<now, ticks, nreq, issued, req, movies>>

\* GenerateAllTokens finds one of the two secrets empty
SecretsUnset == Getenv("SECRET_KEY") = "" \/ Getenv("SECRET_REFRESH_KEY") = ""

\* log.Fatal: os.Exit(1) ends the process and every goroutine with it; the
\* request that was being served gets no response
Fatal ==
  /\ pc' = [q \in Procs |-> "exited"]
  /\ resp' = resp

\* IssueTokens whose store write is conditional on the hash the request
\* matched still being the stored one (compare-and-swap); the loser is
\* answered 401
IssueTokensCompareAndSwap(p, okStatus, okBody) ==
  \E hashErr \in BOOLEAN, storeErr \in BOOLEAN :
    LET user == loc[p].user
        toks == GenerateAllTokens(user, now)
        upd == UpdateAllTokens(user.user_id, toks.refresh, hashErr, storeErr)
    IN IF SecretsUnset
       THEN /\ Fatal
            /\ UNCHANGED <<users, nsalt, issued>>
       ELSE IF loc[p].sawHash # NoHash
            /\ users[user.user_id].refresh_token_hash # loc[p].sawHash
       THEN /\ Reply(p, 401, "Refresh token has been revoked")
            /\ UNCHANGED <<users, nsalt, issued>>
       ELSE IF ~upd.ok
       THEN /\ Reply(p, 500, "Failed to update tokens")
            /\ UNCHANGED <<users, nsalt, issued>>
       ELSE /\ users' = upd.users
            /\ nsalt' = nsalt + 1
            /\ issued' = issued \cup {toks.access, toks.refresh}
            /\ ReplyWithCookies(p, okStatus, okBody, toks.access, toks.refresh)

\* GenerateAllTokens, UpdateAllTokens, the two cookies and the response:
\* the tail shared by RegisterUser, LoginUser and RefreshToken
IssueTokens(p, okStatus, okBody) ==
  \E hashErr \in BOOLEAN, storeErr \in BOOLEAN :
    LET user == loc[p].user
        toks == GenerateAllTokens(user, now)
        upd == UpdateAllTokens(user.user_id, toks.refresh, hashErr, storeErr)
    IN IF SecretsUnset
       THEN /\ Fatal
            /\ UNCHANGED <<users, nsalt, issued>>
       ELSE IF ~upd.ok
       THEN /\ Reply(p, 500, "Failed to update tokens")
            /\ UNCHANGED <<users, nsalt, issued>>
       ELSE /\ users' = upd.users
            /\ nsalt' = nsalt + 1
            /\ issued' = issued \cup {toks.access, toks.refresh}
            /\ ReplyWithCookies(p, okStatus, okBody, toks.access, toks.refresh)

\* step 7 and the cookies
RegisterTokens(p) ==
  /\ At(p, "reg_tokens")
  /\ IssueTokens(p, 201, "User registered successfully")
  /\ UNCHANGED <<now, ticks, nreq, req, loc, movies>>

\* --------------------------------------------------------------- LoginUser
\* steps 1-4: bind, validate, FindOne by email, verify the password
LoginFind(p) ==
  \E b \in LoginBodies, storeErr \in BOOLEAN :
    /\ Accept(p, [NoReq EXCEPT !.route = "/login", !.body = b])
    /\ LET foundUser == FindOneByEmail(b.email) IN
       IF ~b.valid
       THEN Reply(p, 400, "Invalid input data") /\ loc' = loc
       ELSE IF storeErr
       THEN Reply(p, 500, "Failed to query user") /\ loc' = loc
       ELSE IF foundUser = NoDoc
       THEN Reply(p, 401, "Invalid email or password") /\ loc' = loc
       ELSE IF ~CompareHashAndPassword(foundUser.password,
                                       PasswordKey(b.password))
       THEN Reply(p, 401, "Invalid email or password") /\ loc' = loc
       ELSE /\ loc' = [loc EXCEPT ![p].user = foundUser]
            /\ pc' = [pc EXCEPT ![p] = "login_tokens"]
            /\ resp' = resp
    /\ UNCHANGED <<users, now, ticks, nsalt, issued, movies>>

\* steps 5-8
LoginTokens(p) ==
  /\ At(p, "login_tokens")
  /\ IssueTokens(p, 200, "User logged in successfully")
  /\ UNCHANGED <<now, ticks, nreq, req, loc, movies>>

\* ------------------------------------------------------------ RefreshToken
\* the cookie, ValidateRefreshToken and ValidateRefreshTokenFromDB
RefreshCheck(p) ==
  \E c \in RefreshCookies, storeErr \in BOOLEAN :
    /\ Accept(p, [NoReq EXCEPT !.route = "/refresh", !.refresh = c])
    /\ LET v == ValidateRefreshToken(c) IN
       IF c = NoCookie
       THEN Reply(p, 401, "No refresh token provided") /\ loc' = loc
       ELSE IF ~v.ok
       THEN Reply(p, 401, "Invalid or expired refresh token") /\ loc' = loc
       ELSE IF ~ValidateRefreshTokenFromDB(v.claims.user_id, c, storeErr)
       THEN Reply(p, 401, "Refresh token has been revoked") /\ loc' = loc
       ELSE /\ loc' = [loc EXCEPT
                         ![p].claims = v.claims,
                         ![p].sawHash =
                            users[v.claims.user_id].refresh_token_hash]
            /\ pc' = [pc EXCEPT ![p] = "ref_find"]
            /\ resp' = resp
    /\ UNCHANGED <<users, now, ticks, nsalt, issued, movies>>

\* FindOne by the user_id of the claims
RefreshFind(p) ==
  \E storeErr \in BOOLEAN :
    /\ At(p, "ref_find")
    /\ LET user == FindOneByUserId(loc[p].claims.user_id) IN
       IF storeErr \/ user = NoDoc
       THEN Reply(p, 404, "User not found") /\ loc' = loc
       ELSE /\ loc' = [loc EXCEPT ![p].user = user]
            /\ pc' = [pc EXCEPT ![p] = "ref_tokens"]
            /\ resp' = resp
    /\ UNCHANGED <<users, now, ticks, nsalt, nreq, issued, req, movies>>

\* new tokens, UpdateAllTokens, new cookies
RefreshTokens(p) ==
  /\ At(p, "ref_tokens")
  /\ IssueTokens(p, 200, "Token refreshed successfully")
  /\ UNCHANGED <<now, ticks, nreq, req, loc, movies>>

\* ------------------------------------------------------------------ Logout
\* the user id Logout resolves: the gin context, else the refresh cookie;
\* 0 is the empty string, -1 an invalid refresh cookie (the early return)
LogoutUserId(ctx, refreshToken) ==
  IF ctx.set THEN ctx.userId
  ELSE IF refreshToken # NoCookie /\ refreshToken # EmptyCookie
  THEN LET v == ValidateRefreshToken(refreshToken) IN
       IF ~v.ok THEN -1 ELSE v.claims.user_id
  ELSE 0

Logout(p) ==
  \E a \in AccessCookies, r \in RefreshCookies, storeErr \in BOOLEAN :
    /\ Accept(p, [NoReq EXCEPT !.route = "/logout", !.access = a,
                               !.refresh = r])
    /\ LET ctx == ContextOf("/logout", a)
           userId == LogoutUserId(ctx, r)
           rev == RevokeRefreshToken(userId, storeErr)
       IN /\ loc' = [loc EXCEPT ![p].ctx = ctx, ![p].claims.user_id = userId]
          /\ IF userId = -1
             THEN /\ ReplyWithCookies(p, 200, "Logged out successfully",
                                      Cleared, Cleared)
                  /\ users' = users
             ELSE IF userId # 0 /\ ~rev.ok
             THEN /\ Reply(p, 500, "Failed to logout")
                  /\ users' = users
             ELSE /\ ReplyWithCookies(p, 200, "Logged out successfully",
                                      Cleared, Cleared)
                  /\ users' = IF userId # 0 THEN rev.users ELSE users
    /\ UNCHANGED <<now, ticks, nsalt, issued, movies>>

\* ------------------------------------------------------- a protected route
\* GET /profile: AuthMiddleware, then GetProfile
Profile(p) ==
  \E a \in AccessCookies, storeErr \in BOOLEAN :
    /\ Accept(p, [NoReq EXCEPT !.route = "/profile", !.access = a])
    /\ LET m == AuthMiddleware(a)
           user == FindOneByUserId(m.ctx.userId)
       IN /\ loc' = [loc EXCEPT ![p].ctx = ContextOf("/profile", a),
                                ![p].user = IF m.ctx.set /\ ~storeErr
                                            THEN user ELSE NoDoc]
          /\ IF m.status # 0 THEN Reply(p, m.status, m.body)
             ELSE IF storeErr \/ user = NoDoc
             THEN Reply(p, 404, "User not found")
             ELSE Reply(p, 200, "Profile retrieved successfully")
    /\ UNCHANGED <<users, now, ticks, nsalt, issued, movies>>

\* ------------------------------------------------------ AdminReviewUpdate
\* AdminReviewUpdate that only requires a role to be in the context
AdminReviewUpdateAnyRole(p) ==
  \E a \in AccessCookies, id \in ImdbParams, b \in ReviewBodies,
     storeErr \in BOOLEAN :
    /\ Accept(p, [NoReq EXCEPT !.route = "/updatereview", !.param = id,
                               !.access = a, !.body = b])
    /\ LET m == AuthMiddleware(a)
           ctx == ContextOf("/updatereview", a)
           ranking == IF b.ranking = 0 THEN Unrated ELSE b.ranking
       IN /\ loc' = [loc EXCEPT ![p].ctx = ctx]
          /\ IF m.status # 0
             THEN Reply(p, m.status, m.body) /\ movies' = movies
             ELSE IF ~ctx.set
             THEN Reply(p, 401, "User not authenticated") /\ movies' = movies
             ELSE IF id = ""
             THEN Reply(p, 400, "imdb_id is required") /\ movies' = movies
             ELSE IF ~b.valid
             THEN Reply(p, 400, "Invalid request body") /\ movies' = movies
             ELSE IF b.admin_review = ""
             THEN Reply(p, 400, "admin_review is required")
                  /\ movies' = movies
             ELSE IF storeErr
             THEN Reply(p, 500, "Failed to update movie") /\ movies' = movies
             ELSE IF id \notin ImdbIds
             THEN Reply(p, 404, "Movie not found") /\ movies' = movies
             ELSE /\ Reply(p, 200, "Review updated")
                  /\ movies' = [movies EXCEPT ![id] =
                                  [admin_review |-> b.admin_review,
                                   ranking |-> ranking]]
    /\ UNCHANGED <<users, now, ticks, nsalt, issued>>

\* PATCH /updatereview/:imdb_id: AuthMiddleware, then AdminReviewUpdate
AdminReviewUpdate(p) ==
  \E a \in AccessCookies, id \in ImdbParams, b \in ReviewBodies,
     storeErr \in BOOLEAN :
    /\ Accept(p, [NoReq EXCEPT !.route = "/updatereview", !.param = id,
                               !.access = a, !.body = b])
    /\ LET m == AuthMiddleware(a)
           ctx == ContextOf("/updatereview", a)
           ranking == IF b.ranking = 0 THEN Unrated ELSE b.ranking
       IN /\ loc' = [loc EXCEPT ![p].ctx = ctx]
          /\ IF m.status # 0
             THEN Reply(p, m.status, m.body) /\ movies' = movies
             ELSE IF ~ctx.set
             THEN Reply(p, 401, "User not authenticated") /\ movies' = movies
             ELSE IF ctx.role # RoleAdmin
             THEN Reply(p, 403, "Admin role required") /\ movies' = movies
             ELSE IF id = ""
             THEN Reply(p, 400, "imdb_id is required") /\ movies' = movies
             ELSE IF ~b.valid
             THEN Reply(p, 400, "Invalid request body") /\ movies' = movies
             ELSE IF b.admin_review = ""
             THEN Reply(p, 400, "admin_review is required")
                  /\ movies' = movies
             ELSE IF storeErr
             THEN Reply(p, 500, "Failed to update movie") /\ movies' = movies
             ELSE IF id \notin ImdbIds
             THEN Reply(p, 404, "Movie not found") /\ movies' = movies
             ELSE /\ Reply(p, 200, "Review updated")
                  /\ movies' = [movies EXCEPT ![id] =
                                  [admin_review |-> b.admin_review,
                                   ranking |-> ranking]]
    /\ UNCHANGED <<users, now, ticks, nsalt, issued>>

\* the response has been sent: the goroutine ends
Return(p) ==
  /\ pc[p] = "done"
  /\ pc' = [pc EXCEPT ![p] = "idle"]
  /\ req' = [req EXCEPT ![p] = NoReq]
  /\ loc' = [loc EXCEPT ![p] = NoLoc]
  /\ resp' = [resp EXCEPT ![p] = NoResp]
  /\ UNCHANGED <<users, now, ticks, nsalt, nreq, issued, env, movies, cvars>>

Next ==
  \/ Tick
  \/ \E p \in Procs : RegisterCount(p)
  \/ \E p \in Procs : RegisterInsert(p)
  \/ \E p \in Procs : RegisterTokens(p)
  \/ \E p \in Procs : LoginFind(p)
  \/ \E p \in Procs : LoginTokens(p)
  \/ \E p \in Procs : RefreshCheck(p)
  \/ \E p \in Procs : RefreshFind(p)
  \/ \E p \in Procs : RefreshTokens(p)
  \/ \E p \in Procs : Logout(p)
  \/ \E p \in Procs : Profile(p)
  \/ \E p \in Procs : AdminReviewUpdate(p)
  \/ \E p \in Procs : Return(p)

Spec == Init /\ [][Next]_vars

\* the environments in which one of the secrets is not set
UnsetEnvironments ==
  {[SECRET_KEY |-> "", SECRET_REFRESH_KEY |-> "secret-b"],
   [SECRET_KEY |-> "secret-a", SECRET_REFRESH_KEY |-> ""]}

\* main starts the router whatever the environment holds
InitAnyEnv ==
  /\ users = [i \in UserIds |-> IF i = 1 THEN SeedAdmin ELSE NoDoc]
  /\ now = 0
  /\ ticks = 0
  /\ nsalt = 1
  /\ nreq = 0
  /\ issued = {}
  /\ pc = [p \in Procs |-> "idle"]
  /\ req = [p \in Procs |-> NoReq]
  /\ loc = [p \in Procs |-> NoLoc]
  /\ resp = [p \in Procs |-> NoResp]
  /\ env \in Environments \cup UnsetEnvironments
  /\ movies = [i \in ImdbIds |-> NoMovie]
  /\ BrowserClosed

SpecAnyEnv == InitAnyEnv /\ [][Next]_vars

\* -------------------------------------------------- the browser application
\* The server as one browser sees it: every request of the browser is handled
\* in one step, by the operators the handlers are made of.

\* the cookie the browser sends back: Set-Cookie gave it max-age ttl at the
\* second the token was issued, and the browser drops it when that has passed
SentCookie(tok, ttl) ==
  IF tok.kind = "jwt" /\ now < tok.iat + ttl THEN tok ELSE NoCookie

\* GET /profile: AuthMiddleware, then GetProfile
ServeProfile(a, storeErr) ==
  LET m == AuthMiddleware(a) IN
    IF m.status # 0 THEN m.status
    ELSE IF storeErr \/ FindOneByUserId(m.ctx.userId) = NoDoc THEN 404
    ELSE 200

\* GET /movies: a public route
ServeMovies(storeErr) == IF storeErr THEN 500 ELSE 200

\* where a POST /refresh may fail on the server side
RefreshFailures == {"none", "load", "find", "hash", "update"}

\* POST /refresh with the refresh_token cookie c: RefreshToken from the cookie
\* to the response
ServeRefresh(c, f) ==
  LET v == ValidateRefreshToken(c)
      user == FindOneByUserId(v.claims.user_id)
      toks == GenerateAllTokens(user, now)
      upd == UpdateAllTokens(user.user_id, toks.refresh, f = "hash",
                             f = "update")
      failed(status) == [status |-> status, users |-> users,
                         access |-> NoCookie, refresh |-> NoCookie]
  IN IF c = NoCookie THEN failed(401)
     ELSE IF ~v.ok THEN failed(401)
     ELSE IF ~ValidateRefreshTokenFromDB(v.claims.user_id, c, f = "load")
     THEN failed(401)
     ELSE IF f = "find" \/ user = NoDoc THEN failed(404)
     ELSE IF ~upd.ok THEN failed(500)
     ELSE [status |-> 200, users |-> upd.users,
           access |-> toks.access, refresh |-> toks.refresh]

\* the urls the pages of the application call
Urls == {"/profile", "/movies"}

\* the response interceptor without the refresh: every error is normalized
\* and rejected
InterceptRejectOnly(url, retry, status) ==
  IF status = 200 THEN "resolve" ELSE "reject"

\* the response interceptor without the isRefreshing test: every first 401
\* starts a refresh of its own
InterceptNoQueue(url, retry, status) ==
  IF status = 200 THEN "resolve"
  ELSE IF status = 401 /\ ~retry
  THEN IF url = "/refresh" THEN "reject" ELSE "refresh"
  ELSE "reject"

\* the response interceptor without the _retry flag: every 401 to a request
\* other than the refresh starts or awaits a refresh
InterceptNoRetryFlag(url, retry, status) ==
  IF status = 200 THEN "resolve"
  ELSE IF status = 401
  THEN IF url = "/refresh" THEN "reject"
       ELSE IF isRefreshing THEN "queue"
       ELSE "refresh"
  ELSE "reject"

\* the response interceptor of client.js on a response with the given status
\* (0: no response, a timeout or network error) to a request with the given
\* url and _retry: what becomes of the request
Intercept(url, retry, status) ==
  IF status = 200 THEN "resolve"
  ELSE IF status = 401 /\ ~retry
  THEN IF url = "/refresh" THEN "reject"
       ELSE IF isRefreshing THEN "queue"
       ELSE "refresh"
  ELSE "reject"

\* fetchProfile and initAuth of AuthInitializer once call 1 has settled
Initialized(a, user) == [a EXCEPT !.initialized = TRUE, !.user = user]

\* handleForcedLogout, the listener of 'auth:logout'
HandleForcedLogout(a) ==
  [a EXCEPT !.user = 0,
            !.toast = "Session expired. Please login again.",
            !.path = "/login",
            !.events = a.events + 1]

\* the token cookies of the administrator's login at second 0
LoggedIn == GenerateAllTokens(SeedAdmin, 0)

\* the users collection after that login, holding the given hash
SessionUsers(hash) ==
  [i \in UserIds |->
     IF i = 1
     THEN [SeedAdmin EXCEPT !.refresh_token_hash = hash,
                            !.token = "absent", !.refresh_token = "absent"]
     ELSE NoDoc]

\* The visitor opens the application: never logged in; logged in at second 0
\* with the cookies still in the jar; or logged in and since logged out from
\* another browser.  The clock stands at the login, at the expiry of the
\* access token or at the expiry of the refresh token.
ClientInit ==
  /\ env \in Environments
  /\ now \in {0, AccessTTL, RefreshTTL}
  /\ \/ /\ users = [i \in UserIds |-> IF i = 1 THEN SeedAdmin ELSE NoDoc]
        /\ nsalt = 1
        /\ issued = {}
        /\ jar = NoJar
     \/ /\ users \in {SessionUsers(
                        GenerateFromPassword(BcryptKey(LoggedIn.refresh), 2)),
                      SessionUsers(NoHash)}
        /\ nsalt = 2
        /\ issued = {LoggedIn.access, LoggedIn.refresh}
        /\ jar = [access |-> LoggedIn.access, refresh |-> LoggedIn.refresh]
  /\ ticks = 0
  /\ nreq = 0
  /\ pc = [p \in Procs |-> "idle"]
  /\ req = [p \in Procs |-> NoReq]
  /\ loc = [p \in Procs |-> NoLoc]
  /\ resp = [p \in Procs |-> NoResp]
  /\ movies = [i \in ImdbIds |-> NoMovie]
  /\ isRefreshing = FALSE
  /\ failedQueue = <<>>
  /\ call = [r \in Calls |-> NoCall]
  /\ inflight = {}
  /\ app = NoApp

\* App mounts: initAuth of AuthInitializer calls fetchProfile
Load ==
  /\ call[1].st = "new"
  /\ call' = [call EXCEPT ![1].url = "/profile", ![1].st = "sent"]
  /\ UNCHANGED <<svars, jar, isRefreshing, failedQueue, inflight, app>>

\* a page calls the API; AuthInitializer renders the pages once it is
\* initialized
Send(r) ==
  /\ r > 1
  /\ app.initialized
  /\ call[r].st = "new" /\ call[r - 1].st # "new"
  /\ \E url \in Urls :
       call' = [call EXCEPT ![r].url = url, ![r].st = "sent"]
  /\ UNCHANGED <<svars, jar, isRefreshing, failedQueue, inflight, app>>

\* the response interceptor runs on a response to call r
Intercepted(r, status) ==
  LET d == Intercept(call[r].url, call[r].retry, status) IN
    CASE d = "resolve" ->
           /\ call' = [call EXCEPT ![r].st = "resolved", ![r].status = status]
           /\ app' = IF r = 1 THEN Initialized(app, jar.access.user_id)
                     ELSE app
           /\ UNCHANGED <<isRefreshing, failedQueue, inflight>>
      [] d = "reject" ->
           /\ call' = [call EXCEPT ![r].st = "rejected", ![r].status = status]
           /\ app' = IF r = 1 THEN Initialized(app, 0) ELSE app
           /\ UNCHANGED <<isRefreshing, failedQueue, inflight>>
      [] d = "queue" ->
           /\ call' = [call EXCEPT ![r].st = "queued", ![r].status = status]
           /\ failedQueue' = Append(failedQueue, r)
           /\ UNCHANGED <<isRefreshing, inflight, app>>
      [] d = "refresh" ->
           /\ call' = [call EXCEPT ![r].st = "awaiting",
                                   ![r].status = status,
                                   ![r].retry = TRUE,
                                   ![r].refreshes = @ + 1]
           /\ isRefreshing' = TRUE
           /\ inflight' = inflight \cup {r}
           /\ UNCHANGED <<failedQueue, app>>

\* the server answers call r, or the request times out
Respond(r) ==
  /\ call[r].st = "sent"
  /\ \E storeErr \in BOOLEAN, lost \in BOOLEAN :
       LET status ==
             IF lost THEN 0
             ELSE IF call[r].url = "/profile"
             THEN ServeProfile(SentCookie(jar.access, AccessTTL), storeErr)
             ELSE ServeMovies(storeErr)
       IN Intercepted(r, status)
  /\ UNCHANGED <<svars, jar>>

\* the calls on failedQueue
Queued == {failedQueue[i] : i \in DOMAIN failedQueue}

\* processQueue that only ever resolves: after a failed refresh the entries
\* are dropped unsettled
processQueueResolveOnly(error) ==
  [q \in Calls |->
     IF q \in Queued /\ error = 200 THEN [call[q] EXCEPT !.st = "sent"]
     ELSE call[q]]

\* processQueue of client.js: after a refresh answered 200 every queued
\* promise is resolved and its request sent again, after a failed one every
\* queued promise is rejected with the error of the refresh
processQueue(error) ==
  [q \in Calls |->
     IF q \in Queued
     THEN IF error = 200 THEN [call[q] EXCEPT !.st = "sent"]
          ELSE [call[q] EXCEPT !.st = "rejected", !.status = error]
     ELSE call[q]]

\* the try, catch and finally of the interceptor run of call r once its
\* POST /refresh has been answered with the given status, the response
\* having passed the interceptor itself
RefreshSettled(r, status) ==
  LET d == Intercept("/refresh", FALSE, status)
      settle(st) ==
        [processQueue(status) EXCEPT
           ![r] = IF st = "sent" THEN [call[r] EXCEPT !.st = "sent"]
                  ELSE [call[r] EXCEPT !.st = st, !.status = status]]
  IN /\ inflight' = inflight \ {r}
     /\ CASE d = "resolve" ->
               /\ call' = settle("sent")
               /\ failedQueue' = <<>>
               /\ isRefreshing' = FALSE
               /\ app' = app
          [] d = "reject" ->
               /\ call' = settle("rejected")
               /\ failedQueue' = <<>>
               /\ isRefreshing' = FALSE
               /\ app' = IF r = 1 \/ 1 \in Queued
                         THEN Initialized(HandleForcedLogout(app), 0)
                         ELSE HandleForcedLogout(app)
          [] OTHER ->
               \* the promise of the POST never settles
               UNCHANGED <<call, failedQueue, isRefreshing, app>>

\* the server answers the POST /refresh that the interceptor run of call r
\* is awaiting, or it times out
RefreshRespond(r) ==
  /\ r \in inflight
  /\ \E f \in RefreshFailures, lost \in BOOLEAN :
       LET out == IF lost
                  THEN [status |-> 0, users |-> users,
                        access |-> NoCookie, refresh |-> NoCookie]
                  ELSE ServeRefresh(SentCookie(jar.refresh, RefreshTTL), f)
           ok == out.status = 200
       IN /\ users' = out.users
          /\ nsalt' = IF ok THEN nsalt + 1 ELSE nsalt
          /\ issued' = IF ok THEN issued \cup {out.access, out.refresh}
                       ELSE issued
          /\ jar' = IF ok THEN [access |-> out.access, refresh |-> out.refresh]
                    ELSE jar
          /\ RefreshSettled(r, out.status)
  /\ UNCHANGED <<now, ticks, nreq, pc, req, loc, resp, env, movies>>

ClientNext ==
  \/ Load
  \/ \E r \in Calls : Send(r)
  \/ \E r \in Calls : Respond(r)
  \/ \E r \in Calls : RefreshRespond(r)

ClientSpec == ClientInit /\ [][ClientNext]_vars

\* axios settles every request within its timeout
ClientFairSpec ==
  /\ ClientSpec
  /\ \A r \in Calls : WF_vars(Respond(r)) /\ WF_vars(RefreshRespond(r))

\* The server started against a database whose users collection is empty:
\* nothing in the repository creates a user but RegisterUser.
InitEmptyStore ==
  /\ users = [i \in UserIds |-> NoDoc]
  /\ now = 0
  /\ ticks = 0
  /\ nsalt = 1
  /\ nreq = 0
  /\ issued = {}
  /\ pc = [p \in Procs |-> "idle"]
  /\ req = [p \in Procs |-> NoReq]
  /\ loc = [p \in Procs |-> NoLoc]
  /\ resp = [p \in Procs |-> NoResp]
  /\ env \in Environments
  /\ movies = [i \in ImdbIds |-> NoMovie]
  /\ BrowserClosed

\* clients that only register
RegisterNext ==
  \/ \E p \in Procs : RegisterCount(p)
  \/ \E p \in Procs : RegisterInsert(p)
  \/ \E p \in Procs : RegisterTokens(p)
  \/ \E p \in Procs : Return(p)

SpecRegister == InitEmptyStore /\ [][RegisterNext]_vars

\* The application against a server it does not control: every answer is one
\* of these statuses, 0 standing for no answer within the timeout.
Statuses == {0, 200, 401, 500}

\* any answer to call r
RespondAny(r) ==
  /\ call[r].st = "sent"
  /\ \E status \in Statuses : Intercepted(r, status)
  /\ UNCHANGED <<svars, jar>>

\* any answer to the POST /refresh of the interceptor run of call r
RefreshRespondAny(r) ==
  /\ r \in inflight
  /\ \E status \in Statuses : RefreshSettled(r, status)
  /\ UNCHANGED <<svars, jar>>

ClientAnyServerNext ==
  \/ Load
  \/ \E r \in Calls : Send(r)
  \/ \E r \in Calls : RespondAny(r)
  \/ \E r \in Calls : RefreshRespondAny(r)

ClientAnyServerSpec == ClientInit /\ [][ClientAnyServerNext]_vars

\* axios settles every request within its timeout
ClientAnyServerFairSpec ==
  /\ ClientAnyServerSpec
  /\ \A r \in Calls : WF_vars(RespondAny(r)) /\ WF_vars(RefreshRespondAny(r))

\* ------------------------------------------------------------------ claims
\* the requests whose response has just been written
Done == {p \in Procs : pc[p] = "done"}

\* the responses that set the two token cookies
Issuing == {p \in Done : resp[p].access.kind = "jwt"}

IssuedAccess == {t \in issued : t.type = "access"}
IssuedRefresh == {t \in issued : t.type = "refresh"}

\* C4: the access token a register, login or refresh response sets, validated
\* at once by ValidateAccessToken, is accepted, and the claims it yields carry
\* the user_id and the role of the user's document.
C4_IssueThenValidateAccess ==
  \A p \in Issuing :
    LET v == ValidateAccessToken(resp[p].access) IN
      /\ v.ok
      /\ v.claims.user_id = loc[p].user.user_id
      /\ v.claims.user_id \in Docs
      /\ v.claims.role = users[v.claims.user_id].role

\* an administrator and an ordinary user have both been issued tokens
C4_Witness ==
  /\ \E p \in Issuing : resp[p].access.role = RoleUser
  /\ \E t \in IssuedAccess : t.role = RoleAdmin

\* the refresh operation would let the token string t past ValidateRefreshToken
\* and ValidateRefreshTokenFromDB in the current state
AcceptedByRefresh(t) ==
  LET v == ValidateRefreshToken(t) IN
    /\ t # NoCookie
    /\ v.ok
    /\ ValidateRefreshTokenFromDB(v.claims.user_id, t, FALSE)

\* C1: of the refresh token strings issued for a user, the refresh operation
\* accepts only the most recently issued one: once a newer refresh token
\* has been issued, every earlier one is rejected.
C1_OnlyLatestRefreshAccepted ==
  \A t \in IssuedRefresh :
    AcceptedByRefresh(t) =>
      \A t2 \in IssuedRefresh : t2.user_id = t.user_id => t2.iat <= t.iat

\* C2: once a refresh presenting a refresh token string has succeeded, the
\* string it presented is no longer accepted by the refresh operation.
C2_UsedRefreshTokenRevoked ==
  \A p \in Done :
    req[p].route = "/refresh" /\ resp[p].status = 200
      => ~AcceptedByRefresh(req[p].refresh)

\* C3: when a logout that resolved a user has answered, no refresh token of
\* that user is accepted any more, and a refresh request that presents a
\* well-signed, unexpired refresh token while the user's refresh_token_hash
\* is absent is answered 401 "revoked" and sets no cookie.
C3_RevokedAfterLogout ==
  /\ \A p \in Done :
       req[p].route = "/logout" /\ resp[p].status = 200
         /\ loc[p].claims.user_id > 0
       => \A t \in RefreshCookies :
            t.user_id = loc[p].claims.user_id => ~AcceptedByRefresh(t)
  /\ \A p \in Done :
       req[p].route = "/refresh" /\ ValidateRefreshToken(req[p].refresh).ok
         /\ loc[p].sawHash = NoHash
         /\ users[req[p].refresh.user_id].refresh_token_hash = NoHash
       => /\ resp[p].status = 401
          /\ resp[p].body = "Refresh token has been revoked"
          /\ resp[p].access = NoCookie /\ resp[p].refresh = NoCookie

\* a refresh token that was issued and is still well-signed and unexpired is
\* answered 401 because its user has no stored hash
C3_Witness ==
  \E p \in Done :
    /\ req[p].route = "/refresh"
    /\ req[p].refresh \in IssuedRefresh
    /\ ValidateRefreshToken(req[p].refresh).ok
    /\ users[req[p].refresh.user_id].refresh_token_hash = NoHash
    /\ resp[p].status = 401

\* C5: whatever the users collection holds, an issued access token passes
\* ValidateAccessToken exactly while the clock is before its expiry, and a
\* protected request that carries it is never answered 401 before then:
\* neither a logout nor a rotation changes the outcome.
C5_AccessValidityStateless ==
  /\ \A a \in IssuedAccess : ValidateAccessToken(a).ok <=> now < a.exp
  /\ \A p \in Done :
       Protected(req[p].route) /\ req[p].access \in IssuedAccess
         /\ now < req[p].access.exp
       => /\ resp[p].status # 401
          /\ loc[p].ctx.set
          /\ loc[p].ctx.userId = req[p].access.user_id

\* a protected request is served for a user whose refresh_token_hash has been
\* removed by a logout
C5_Witness ==
  \E p \in Done :
    /\ req[p].route = "/profile"
    /\ req[p].access \in IssuedAccess
    /\ resp[p].status = 200
    /\ users[req[p].access.user_id].refresh_token_hash = NoHash

\* the issued refresh token strings a stored hash verifies
VerifiedBy(hash) ==
  {t \in IssuedRefresh : CompareHashAndPassword(hash, BcryptKey(t))}

\* C6: every stored refresh_token_hash is the hash of exactly one refresh
\* token string, and a document that holds one holds neither the plain-text
\* refresh token nor an access token (the fields token and refresh_token are
\* absent).
C6_HashOfExactlyOneToken ==
  \A u \in Docs :
    users[u].refresh_token_hash # NoHash =>
      /\ Cardinality(VerifiedBy(users[u].refresh_token_hash)) = 1
      /\ users[u].token = "absent"
      /\ users[u].refresh_token = "absent"

\* C7: a hash made from the refresh token string t1 verifies the string t2
\* exactly when t2 is t1, for all refresh token strings the server issues.
C7_VerifyIffSameToken ==
  \A t1 \in IssuedRefresh, t2 \in IssuedRefresh :
    CompareHashAndPassword(GenerateFromPassword(BcryptKey(t1), nsalt + 1),
                           BcryptKey(t2))
      <=> t1 = t2

\* two refresh requests presented the same token string and matched the same
\* stored hash (none had written when the other checked); p has answered 200,
\* q is about to generate its tokens
Raced(p, q) ==
  /\ p # q
  /\ pc[p] = "done" /\ req[p].route = "/refresh" /\ resp[p].status = 200
  /\ pc[q] = "ref_tokens"
  /\ req[q].refresh = req[p].refresh
  /\ loc[q].sawHash = loc[p].sawHash

\* C8: when two refresh requests have passed the stored-hash check on the
\* same refresh token before either wrote, the first has received a valid
\* token pair with status 200 and the second can still complete with status
\* 200 and a valid token pair of its own: the store write does not depend on
\* the hash that was matched.
C8_ConcurrentRefreshDoubleIssue ==
  \A p \in Procs, q \in Procs :
    Raced(p, q) =>
      /\ ValidateAccessToken(resp[p].access).ok
      /\ ValidateRefreshToken(resp[p].refresh).ok
      /\ ENABLED (/\ IssueTokens(q, 200, "Token refreshed successfully")
                  /\ resp'[q].status = 200
                  /\ ValidateAccessToken(resp'[q].access).ok
                  /\ ValidateRefreshToken(resp'[q].refresh).ok
                  /\ users'[loc[q].user.user_id].refresh_token_hash.salt
                       > users[loc[q].user.user_id].refresh_token_hash.salt)

C8_Witness == \E p \in Procs, q \in Procs : Raced(p, q)

\* C9: every logout request is answered 200 with both cookies cleared.
C9_LogoutAlwaysSucceeds ==
  \A p \in Done :
    req[p].route = "/logout" =>
      /\ resp[p].status = 200
      /\ resp[p].access = Cleared
      /\ resp[p].refresh = Cleared

\* C10: a logout answered 200 that carried a valid access token and no
\* refresh cookie, or a valid refresh cookie and no access token, has removed
\* the refresh_token_hash of the token's user.
C10_LogoutResolvesIdentity ==
  \A p \in Done :
    req[p].route = "/logout" /\ resp[p].status = 200 =>
      /\ ValidateAccessToken(req[p].access).ok /\ req[p].refresh = NoCookie
           => users[req[p].access.user_id].refresh_token_hash = NoHash
      /\ ValidateRefreshToken(req[p].refresh).ok /\ req[p].access = NoCookie
           => users[req[p].refresh.user_id].refresh_token_hash = NoHash

\* the positions at which a handler generates and stores its tokens
TokenSteps == {"reg_tokens", "login_tokens", "ref_tokens"}

\* C11: when the token step of register, login or refresh sets the token
\* cookies, it has written into the user's document a new hash that verifies
\* the refresh token it sets; when it ends without having written one, the
\* response is 500 and carries no token cookie.
C11_CookiesOnlyWithPersistedHash ==
  [][\A p \in Procs :
       pc[p] \in TokenSteps /\ pc'[p] = "done" =>
         LET u == loc[p].user.user_id IN
           /\ resp'[p].refresh.kind = "jwt" \/ resp'[p].access.kind = "jwt"
                => /\ u \in Docs
                   /\ users'[u].refresh_token_hash # users[u].refresh_token_hash
                   /\ users'[u].refresh_token_hash # NoHash
                   /\ CompareHashAndPassword(users'[u].refresh_token_hash,
                                             BcryptKey(resp'[p].refresh))
           /\ users'[u].refresh_token_hash = users[u].refresh_token_hash
                => /\ resp'[p].status = 500
                   /\ resp'[p].access = NoCookie
                   /\ resp'[p].refresh = NoCookie]_vars

\* a registration whose user was inserted ends 500 without a stored hash
C11_Witness ==
  \E p \in Done :
    /\ req[p].route = "/register"
    /\ resp[p].status = 500 /\ resp[p].body = "Failed to update tokens"
    /\ loc[p].user.user_id \in Docs
    /\ users[loc[p].user.user_id].refresh_token_hash = NoHash

\* C12: UpdateAllTokens called with a user id that matches no document fails,
\* and whenever it reports success the document of that user id holds a hash
\* that verifies the refresh token it was given.
C12_SaveRefreshHashNotFound ==
  \A userId \in UserIds, t \in RefreshCookies,
     hashErr \in BOOLEAN, storeErr \in BOOLEAN :
    LET r == UpdateAllTokens(userId, t, hashErr, storeErr) IN
      /\ userId \notin Docs => ~r.ok
      /\ r.ok => /\ r.users[userId].refresh_token_hash # NoHash
                 /\ CompareHashAndPassword(r.users[userId].refresh_token_hash,
                                           BcryptKey(t))

\* the finished requests of the refresh endpoint
RefreshDone == {p \in Done : req[p].route = "/refresh"}

\* the response carries no Set-Cookie header
NoCookiesSet(p) == resp[p].access = NoCookie /\ resp[p].refresh = NoCookie

\* the presented refresh cookie is missing, undecodable, signed with another
\* key or of another type
BadRefreshCookie(c) ==
  \/ c.kind # "jwt"
  \/ c.key # Getenv("SECRET_REFRESH_KEY")
  \/ c.type # "refresh"

HashMismatch(c) ==
  LET h == FindOneByUserId(c.user_id).refresh_token_hash IN
    h = NoHash \/ ~CompareHashAndPassword(h, BcryptKey(c))

StaleAccessDone ==
  {p \in Done : /\ Protected(req[p].route)
                /\ req[p].access.kind = "jwt"
                /\ req[p].access.exp < now}

\* C15 as stated: ValidateAccessToken fails with Expired on every access
\* token whose exp is in the past, whoever signed it.
C15_StaleAlwaysExpired ==
  \A p \in StaleAccessDone :
    LET v == ValidateAccessToken(req[p].access) IN
      ~v.ok /\ v.err = "Expired"

\* C15 amended: ValidateAccessToken fails on every access token whose exp is
\* in the past and the request is answered 401 with no context set; the
\* error is Expired when the token carries a valid signature and the
\* signature error when it does not (the signature is verified first).
C15_StaleNeverAccepted ==
  \A p \in StaleAccessDone :
    LET v == ValidateAccessToken(req[p].access) IN
      /\ ~v.ok
      /\ resp[p].status = 401 /\ ~loc[p].ctx.set
      /\ req[p].access.key = Getenv("SECRET_KEY") => v.err = "Expired"
      /\ req[p].access.key # Getenv("SECRET_KEY") => v.err = "InvalidSignature"

\* an access token the server issued is presented after its expiry
C15_Witness ==
  \E p \in StaleAccessDone :
    /\ req[p].access \in IssuedAccess
    /\ resp[p].status = 401

\* the finished refresh requests that presented an access-typed token, and
\* the finished protected requests that presented a refresh-typed token
AccessAsRefresh ==
  {p \in RefreshDone : req[p].refresh.kind = "jwt"
                         /\ req[p].refresh.type = "access"}
RefreshAsAccess ==
  {p \in Done : Protected(req[p].route) /\ req[p].access.kind = "jwt"
                  /\ req[p].access.type = "refresh"}

\* the error the code yields for a well-formed token of the wrong type
\* checked against the given secret
WrongTypeError(tok, secret) ==
  IF tok.key # secret THEN "InvalidSignature"
  ELSE IF ~(now < tok.exp) THEN "Expired"
  ELSE "WrongTokenType"

\* C16 as stated: an access-typed token presented to the refresh operation
\* fails ValidateRefreshToken with WrongTokenType, and a refresh-typed token
\* presented on a protected route fails ValidateAccessToken with
\* WrongTokenType.
C16_WrongTypeFailsWithWrongTokenType ==
  /\ \A p \in AccessAsRefresh :
       LET v == ValidateRefreshToken(req[p].refresh) IN
         ~v.ok /\ v.err = "WrongTokenType"
  /\ \A p \in RefreshAsAccess :
       LET v == ValidateAccessToken(req[p].access) IN
         ~v.ok /\ v.err = "WrongTokenType"

\* C16 amended: a token of the wrong type is never accepted, the request is
\* answered 401 and nothing is issued or put in the context; the error is
\* WrongTokenType only when the token is signed with the secret of the
\* operation it is presented to and has not expired, the signature error when
\* the two secrets differ.
C16_WrongTypeNeverAccepted ==
  /\ \A p \in AccessAsRefresh :
       LET v == ValidateRefreshToken(req[p].refresh) IN
         /\ ~v.ok
         /\ v.err = WrongTypeError(req[p].refresh, Getenv("SECRET_REFRESH_KEY"))
         /\ resp[p].status = 401 /\ NoCookiesSet(p)
  /\ \A p \in RefreshAsAccess :
       LET v == ValidateAccessToken(req[p].access) IN
         /\ ~v.ok
         /\ v.err = WrongTypeError(req[p].access, Getenv("SECRET_KEY"))
         /\ resp[p].status = 401 /\ ~loc[p].ctx.set

\* one secret signs both kinds: an issued access token presented to the
\* refresh endpoint reaches the type check
C16_Witness ==
  \E p \in AccessAsRefresh :
    /\ req[p].refresh \in IssuedAccess
    /\ ValidateRefreshToken(req[p].refresh).err = "WrongTokenType"

\* the finished logout requests that resolved a user id and were answered 200
LogoutDone ==
  {p \in Done : req[p].route = "/logout" /\ resp[p].status = 200
                  /\ loc[p].claims.user_id > 0}

\* C17: RevokeRefreshToken leaves refresh_token_hash absent whenever the
\* store answers, and called on a user whose refresh_token_hash is already
\* absent (in particular right after a revoke, or for a user id without a
\* document) it returns no error and the field stays absent; a logout that
\* resolved a user leaves that state.
C17_RevokeIdempotent ==
  /\ \A u \in UserIds :
       LET r == RevokeRefreshToken(u, FALSE) IN
         /\ r.ok
         /\ r.users[u].refresh_token_hash = NoHash
         /\ FindOneByUserId(u).refresh_token_hash = NoHash => r.users = users
  /\ \A p \in LogoutDone :
       LET r == RevokeRefreshToken(loc[p].claims.user_id, FALSE) IN
         /\ users[loc[p].claims.user_id].refresh_token_hash = NoHash
         /\ r.ok /\ r.users = users

\* a logout has just removed the hash of a user who holds an issued refresh
\* token: a second revoke finds the field absent
C17_Witness ==
  \E p \in LogoutDone :
    /\ req[p].refresh \in IssuedRefresh
    /\ loc[p].claims.user_id \in Docs
    /\ users[loc[p].claims.user_id].refresh_token_hash = NoHash

\* the finished requests of the protected routes
ProtectedDone == {p \in Done : Protected(req[p].route)}

\* the finished protected requests without an access_token cookie or with an
\* empty one
NoTokenDone == {p \in ProtectedDone : req[p].access \in {NoCookie, EmptyCookie}}

\* the handler behind AuthMiddleware did not run for request p
HandlerNotInvoked(p) == ~loc[p].ctx.set /\ loc[p].user = NoDoc

\* C18 as stated: a protected request whose access_token cookie is absent
\* and one whose cookie is empty get the same answer, 401 with the error
\* "No token provided", and the handler does not run.
C18_AbsentAndEmptySameResponse ==
  \A p \in NoTokenDone :
    /\ resp[p].status = 401
    /\ resp[p].body = "No token provided"
    /\ HandlerNotInvoked(p)

\* C18 amended: both requests are answered 401 and the handler does not run;
\* the error is "No token provided" for an absent cookie and "Token is empty"
\* for an empty one.
C18_AbsentAndEmptyBoth401 ==
  \A p \in NoTokenDone :
    /\ resp[p].status = 401
    /\ NoCookiesSet(p)
    /\ HandlerNotInvoked(p)
    /\ req[p].access = NoCookie => resp[p].body = "No token provided"
    /\ req[p].access = EmptyCookie => resp[p].body = "Token is empty"

\* a protected request with an empty access_token cookie has been answered
C18_Witness ==
  \E p \in NoTokenDone :
    req[p].access = EmptyCookie /\ resp[p].status = 401

\* the response of request p was written by the handler behind AuthMiddleware
HandlerInvoked(p) ==
  resp[p].body \notin
    {"No token provided", "Token is empty", "Invalid or expired token"}

\* C19: the handler of a protected route runs exactly for the requests whose
\* access_token cookie passes ValidateAccessToken, and then the userId and
\* role of the gin context are those of the token's claims; every other
\* request to a protected route is answered 401 and the handler does not run.
C19_ProtectedHandlerOnlyWithValidToken ==
  \A p \in ProtectedDone :
    LET v == ValidateAccessToken(req[p].access) IN
      IF v.ok
      THEN /\ HandlerInvoked(p)
           /\ loc[p].ctx.set
           /\ loc[p].ctx.userId = v.claims.user_id
           /\ loc[p].ctx.role = v.claims.role
           /\ v.claims.type = "access"
           /\ v.claims.key = Getenv("SECRET_KEY")
      ELSE /\ resp[p].status = 401
           /\ ~HandlerInvoked(p)
           /\ HandlerNotInvoked(p)

\* the profile handler has run for a token issued to a registered user
C19_Witness ==
  \E p \in ProtectedDone :
    /\ req[p].access \in IssuedAccess
    /\ resp[p].status = 200
    /\ loc[p].ctx.role = RoleUser
    /\ loc[p].user.user_id = req[p].access.user_id

\* C20: a PATCH /updatereview request that reaches the handler with a role
\* other than ADMIN in its context (the role of the validated access token) is
\* answered 403 "Admin role required", and no request whose token is not a
\* valid ADMIN token changes the movies collection.
C20_NonAdminReviewUpdateForbidden ==
  [][\A p \in Procs :
       pc[p] = "idle" /\ pc'[p] = "done" /\ req'[p].route = "/updatereview"
       => LET v == ValidateAccessToken(req'[p].access) IN
            /\ v.ok /\ v.claims.role # RoleAdmin
                 => /\ loc'[p].ctx.set
                    /\ loc'[p].ctx.role = v.claims.role
                    /\ resp'[p].status = 403
                    /\ resp'[p].body = "Admin role required"
            /\ ~(v.ok /\ v.claims.role = RoleAdmin) => movies' = movies
            /\ movies' # movies => resp'[p].status = 200]_vars

\* a registered user's valid token has been answered 403 by the review
\* update of an existing movie with a well-formed body
C20_Witness ==
  \E p \in ProtectedDone :
    /\ req[p].route = "/updatereview"
    /\ req[p].access \in IssuedAccess
    /\ loc[p].ctx.role = RoleUser
    /\ req[p].param \in ImdbIds /\ req[p].body.admin_review # ""
    /\ resp[p].status = 403
    /\ movies[req[p].param] = NoMovie

\* C21: while one of the two signing secrets is unset the server serves no
\* request: none has been accepted and none is being handled.
C21_NoServingWithoutSecrets ==
  SecretsUnset =>
    /\ nreq = 0
    /\ \A p \in Procs : pc[p] \in {"idle", "exited"} /\ resp[p] = NoResp

\* the access_token and refresh_token cookies the browser sends now
SentAccess == SentCookie(jar.access, AccessTTL)
SentRefresh == SentCookie(jar.refresh, RefreshTTL)

\* C22: with an access cookie that no longer validates and a refresh cookie
\* the server accepts, a first call to a protected endpoint is answered 401
\* and never 200, and its interceptor run posts one refresh; that refresh can
\* be answered 200 with a new valid cookie pair, after which the call is sent
\* again; and the retried call, now carrying a valid access cookie, can be
\* answered 200 and is never answered 401.  No call starts a second refresh.
C22_ExpiredAccessRefreshRetry ==
  \A r \in Calls :
    /\ call[r].refreshes <= 1
    /\ call[r].st = "sent" /\ call[r].url = "/profile" /\ ~call[r].retry
         /\ ~isRefreshing /\ ~ValidateAccessToken(SentAccess).ok
         /\ AcceptedByRefresh(SentRefresh)
       => /\ ENABLED (Respond(r) /\ call'[r].status = 401
                        /\ call'[r].st = "awaiting" /\ r \in inflight'
                        /\ call'[r].refreshes = 1)
          /\ ~ENABLED (Respond(r) /\ call'[r].status = 200)
    /\ r \in inflight /\ AcceptedByRefresh(SentRefresh)
       => ENABLED (/\ RefreshRespond(r)
                   /\ call'[r].st = "sent" /\ call'[r].retry
                   /\ jar'.access.iat = now /\ jar'.refresh.iat = now
                   /\ jar'.access.kind = "jwt" /\ jar'.refresh.kind = "jwt"
                   /\ jar'.access.user_id = jar.refresh.user_id)
    /\ call[r].st = "sent" /\ call[r].url = "/profile" /\ call[r].retry
         /\ ValidateAccessToken(SentAccess).ok
       => /\ ENABLED (Respond(r) /\ call'[r].status = 200
                        /\ call'[r].st = "resolved")
          /\ ~ENABLED (Respond(r) /\ call'[r].status = 401)

\* the whole flow has happened at the expiry of the access token: the first
\* call was answered 401, refreshed once, and its retry was answered 200 with
\* the cookies of the refresh
C22_Witness ==
  /\ now = AccessTTL
  /\ call[1].retry /\ call[1].refreshes = 1
  /\ call[1].st = "resolved" /\ call[1].status = 200
  /\ jar.access.iat = now
  /\ app.initialized /\ app.user = jar.access.user_id

\* C23: at most one POST /refresh issued by the interceptor is in flight, one
\* is in flight exactly while isRefreshing is set, and a call answered 401
\* while it is in flight is put on failedQueue and starts no refresh.
C23_SingleRefreshInFlight ==
  /\ [](/\ Cardinality(inflight) <= 1
        /\ isRefreshing <=> inflight # {})
  /\ [][\A r \in Calls :
          /\ isRefreshing
          /\ call[r].st = "sent" /\ call'[r].st # "sent"
          /\ call'[r].status = 401
          => /\ call'[r].st = "queued"
             /\ failedQueue' = Append(failedQueue, r)
             /\ inflight' = inflight
             /\ call'[r].refreshes = call[r].refreshes]_vars

\* two calls were answered 401: the first has a refresh in flight, the second
\* waits on the queue
C23_Witness ==
  /\ isRefreshing
  /\ Cardinality(inflight) = 1
  /\ failedQueue # <<>>
  /\ \A q \in Queued : call[q].st = "queued" /\ call[q].status = 401
                         /\ q \notin inflight

\* the calls whose promise has settled
Settled == {r \in Calls : call[r].st \in {"resolved", "rejected"}}

\* C24: failedQueue is empty whenever no refresh is in progress and holds
\* exactly the calls waiting in it; the answer to the refresh settles every
\* queued call at once, sending all of them again after a 200 and rejecting
\* all of them with the status of the refresh otherwise; and every queued call
\* is eventually resolved or rejected.
C24_QueueSettled ==
  /\ [](/\ ~isRefreshing => failedQueue = <<>>
        /\ \A r \in Calls : call[r].st = "queued" <=> r \in Queued)
  /\ [][\A r \in inflight : r \notin inflight' =>
          /\ failedQueue' = <<>>
          /\ \A q \in Queued :
               IF jar' # jar THEN call'[q].st = "sent"
               ELSE /\ call'[q].st = "rejected"
                    /\ call'[q].status = call'[r].status
                    /\ call'[r].st = "rejected"]_vars
  /\ \A q \in Calls : (call[q].st = "queued") ~> (q \in Settled)

\* a call that waited on the queue was rejected with the error of the refresh
\* and the queue is empty again
C24_Witness ==
  /\ ~isRefreshing /\ failedQueue = <<>>
  /\ \E r, q \in Calls :
       /\ r # q
       /\ call[r].refreshes = 1 /\ call[q].refreshes = 0
       /\ call[q].url = "/profile" /\ ~call[q].retry
       /\ call[r].st = "rejected" /\ call[q].st = "rejected"
       /\ call[q].status = call[r].status /\ call[q].status # 401

\* C25: when the application loads in a browser that holds no session
\* cookies, AuthInitializer ends initialized with no user, and no 'auth:logout'
\* event has been dispatched, no 'Session expired' message shown and the
\* visitor is still on the page they opened.
C25_SilentRestoreWithoutSession ==
  jar = NoJar /\ app.initialized /\ (\A r \in Calls : r > 1 => call[r].st = "new")
  => /\ app.user = 0
     /\ app.events = 0
     /\ app.toast = ""
     /\ app.path = "/"

\* C26: the interceptor does not loop, whatever the server answers: a call
\* starts at most one refresh; the answer to a POST /refresh, a 401 included,
\* starts no refresh, is never queued, and ends the refresh in progress; and
\* every call that was sent is eventually resolved or rejected.
C26_InterceptorTerminates ==
  /\ [](/\ \A r \in Calls : call[r].refreshes <= 1
        /\ \A b \in BOOLEAN : Intercept("/refresh", b, 401) = "reject")
  /\ [][\A r \in inflight : r \notin inflight' =>
          /\ inflight' = {} /\ ~isRefreshing'
          /\ call'[r].st \in {"sent", "rejected"}
          /\ \A q \in Calls : call'[q].refreshes = call[q].refreshes]_vars
  /\ \A r \in Calls : (call[r].st # "new") ~> (r \in Settled)

\* the server answered 401 to everything: every call was rejected with 401,
\* after one refresh or after waiting for the refresh of another call
C26_Witness ==
  /\ Settled = Calls
  /\ \A r \in Calls : call[r].st = "rejected" /\ call[r].status = 401
                        /\ call[r].url = "/profile"
  /\ \E r \in Calls : call[r].refreshes = 1 /\ call[r].retry
  /\ \E q \in Calls : call[q].refreshes = 0 /\ ~call[q].retry
  /\ \E r \in Calls : call[r].retry /\ call[r].st = "rejected"
  /\ app.events >= 2

\* C27: while no refresh_token_hash is stored for a user, as after a logout
\* answered 200 and until the next login or register, no refresh for that
\* user is answered 200, and only a login or a register stores a hash again.
C27_NoRefreshAfterLogout ==
  [][\A u \in UserIds :
       users[u] # NoDoc /\ users[u].refresh_token_hash = NoHash
       => /\ \A p \in Procs :
               pc[p] = "ref_tokens" /\ loc[p].user.user_id = u
               /\ pc'[p] = "done"
               => resp'[p].status # 200
          /\ users'[u].refresh_token_hash # NoHash
             => \E p \in Procs :
                  /\ pc[p] \in {"login_tokens", "reg_tokens"}
                  /\ pc'[p] = "done"
                  /\ loc[p].user.user_id = u]_vars

\* C28: no two documents of the users collection hold the same email.
C28_EmailUnique ==
  \A i \in Docs, j \in Docs : i # j => users[i].email # users[j].email

\* C29: a register request answered with an error has left no user document
\* of its own in the collection, so the email it carried is as free as it was.
C29_FailedRegisterLeavesNoUser ==
  \A p \in Done :
    req[p].route = "/register" /\ resp[p].status # 201 =>
      \/ loc[p].user = NoDoc
      \/ users[loc[p].user.user_id] = NoDoc

\* C30: every user document but the administrator's, which RegisterUser did
\* not create, has role USER, whatever role the register body carried; and
\* every token issued for such a user, by register, login or refresh, and
\* every access cookie ValidateAccessToken accepts for one, carries role USER.
C30_SelfRegisteredIsUser ==
  /\ \A i \in Docs \ {SeedAdmin.user_id} : users[i].role = RoleUser
  /\ \A t \in issued : t.user_id # SeedAdmin.user_id => t.role = RoleUser
  /\ \A p \in Procs :
       resp[p].access.kind = "jwt"
       /\ resp[p].access.user_id # SeedAdmin.user_id
       => resp[p].access.role = RoleUser
  /\ \A a \in AccessCookies :
       ValidateAccessToken(a).ok /\ a.user_id # SeedAdmin.user_id
       => AuthMiddleware(a).ctx.role = RoleUser

\* a register request whose body carries role ADMIN was answered 201: its
\* user document and its access token have role USER
C30_Witness ==
  \E p \in Procs :
    /\ req[p].route = "/register" /\ req[p].body.role = RoleAdmin
    /\ pc[p] = "done" /\ resp[p].status = 201
    /\ users[resp[p].access.user_id].role = RoleUser
    /\ resp[p].access.role = RoleUser
    /\ resp[p].access \in issued

====
